---- MODULE Spec2Model ----
(***************************************************************************)
(* A model of the shader front end (internal/shader/shader.go) and of the  *)
(* shared vertices backend (internal/mipmap/vertex.go).                    *)
(*                                                                         *)
(* Identifiers are sequences of byte values, so that Go's byte-wise string *)
(* order and the test on the first byte can be computed.  Struct tags are  *)
(* sequences of characters, so that the tag regexp can be computed.  A     *)
(* formatted text is the string fmt.Sprintf builds: the literal parts of   *)
(* the format and the arguments, concatenated.                             *)
(***************************************************************************)
EXTENDS Integers, Sequences, FiniteSets, TLC

(***************************************************************************)
(* Identifiers                                                             *)
(***************************************************************************)
\* "VertexOut"
varyingStructName == <<86, 101, 114, 116, 101, 120, 79, 117, 116>>

\* package-level identifiers: "A", "B", "a", "_x"
nA == <<65>>
nB == <<66>>
na == <<97>>
n_x == <<95, 120>>

\* field identifiers: "P", "Q", "T", "U", "V", "X", "Y", "Z", "W", "K", "M", "N"
fP == <<80>>
fQ == <<81>>
fT == <<84>>
fU == <<85>>
fV == <<86>>
fX == <<88>>
fY == <<89>>
fZ == <<90>>
fW == <<87>>
fK == <<75>>
fM == <<77>>
fN == <<78>>

\* The identifier as text, for %s.
NameString(name) ==
    CASE name = <<>> -> ""
      [] name = varyingStructName -> "VertexOut"
      [] name = nA -> "A"
      [] name = nB -> "B"
      [] name = na -> "a"
      [] name = n_x -> "_x"
      [] name = fP -> "P"
      [] name = fQ -> "Q"
      [] name = fT -> "T"
      [] name = fU -> "U"
      [] name = fV -> "V"
      [] name = fX -> "X"
      [] name = fY -> "Y"
      [] name = fZ -> "Z"
      [] name = fW -> "W"
      [] name = fK -> "K"
      [] name = fM -> "M"
      [] name = fN -> "N"

\* Go's < on strings: byte-wise lexicographic order.
RECURSIVE NameLess(_, _)
NameLess(a, b) ==
    IF b = <<>> THEN FALSE
    ELSE IF a = <<>> THEN TRUE
    ELSE IF a[1] < b[1] THEN TRUE
    ELSE IF a[1] > b[1] THEN FALSE
    ELSE NameLess(Tail(a), Tail(b))

\* 'A' <= name[0] && name[0] <= 'Z'
\* A faulty variant of IsUpperFirst: the upper end of the range is not tested.
IsUpperFirst_NoUpperEnd(name) == 65 <= name[1]

IsUpperFirst(name) == 65 <= name[1] /\ name[1] <= 90

(***************************************************************************)
(* Types and the type resolver (type.go is not part of the sources; the    *)
(* resolver follows section 4.1 and the type vocabulary section 3).        *)
(***************************************************************************)
Typs == {"typNone", "typBool", "typInt", "typFloat", "typVec2", "typVec3",
         "typVec4", "typMat2", "typMat3", "typMat4"}

typVec4 == "typVec4"

TypeIdents ==
    [bool |-> "typBool", int |-> "typInt", float |-> "typFloat",
     vec2 |-> "typVec2", vec3 |-> "typVec3", vec4 |-> "typVec4",
     mat2 |-> "typMat2", mat3 |-> "typMat3", mat4 |-> "typMat4"]

\* parseType(expr): the resolved type, or the resolver's diagnostic.
parseType(expr) ==
    IF expr \in DOMAIN TypeIdents
    THEN [ok |-> TRUE, t |-> TypeIdents[expr], err |-> ""]
    ELSE [ok |-> FALSE, t |-> "typNone", err |-> "unexpected type: " \o expr]

\* typ.numeric()
numeric(t) == t \notin {"typNone", "typBool"}

\* typ.String()
TypString(t) ==
    CASE t = "typNone" -> "none"
      [] t = "typBool" -> "bool"
      [] t = "typInt" -> "int"
      [] t = "typFloat" -> "float"
      [] t = "typVec2" -> "vec2"
      [] t = "typVec3" -> "vec3"
      [] t = "typVec4" -> "vec4"
      [] t = "typMat2" -> "mat2"
      [] t = "typMat3" -> "mat3"
      [] t = "typMat4" -> "mat4"

(***************************************************************************)
(* Struct tags                                                             *)
(***************************************************************************)
\* Characters: one string each; "BQ" is the backquote, "DQ" the double
\* quote and "LF" the line break.
TagPrefix == <<"BQ", "k", "a", "g", "e", ":", "DQ">>
TagSuffix == <<"DQ", "BQ">>
PositionValue == <<"p", "o", "s", "i", "t", "i", "o", "n">>

\* The characters as one string, for %s.
RECURSIVE Text(_)
Text(chars) == IF chars = <<>> THEN "" ELSE Head(chars) \o Text(Tail(chars))

\* kageTagRe.FindStringSubmatch(tag): <<>> when the tag does not match
\* ^BQ kage:DQ (.+) DQ BQ$, and otherwise <<m1>> with m1 the text of the group.
\* The anchors fix the prefix and the suffix; the group is what lies
\* between, at least one character, none of them a line break.
kageTagRe(tag) ==
    LET n == Len(tag)
        m1 == SubSeq(tag, Len(TagPrefix) + 1, n - Len(TagSuffix))
    IN  IF /\ n >= Len(TagPrefix) + 1 + Len(TagSuffix)
           /\ SubSeq(tag, 1, Len(TagPrefix)) = TagPrefix
           /\ SubSeq(tag, n - Len(TagSuffix) + 1, n) = TagSuffix
           /\ \A i \in 1..Len(m1) : m1[i] # "LF"
        THEN <<m1>>
        ELSE <<>>

(***************************************************************************)
(* The Shader under construction                                           *)
(***************************************************************************)
\* variable{}: Go's zero value
ZeroVariable == [name |-> <<>>, typ |-> "typNone", constant |-> FALSE, init |-> ""]

\* &Shader{}
EmptyShader ==
    [position |-> ZeroVariable, varyings |-> <<>>, uniforms |-> <<>>,
     globals |-> <<>>, errs |-> <<>>]

addError(sh, str) == [sh EXCEPT !.errs = Append(@, str)]

\* One variable per name of an untagged field (the loop of lines 167-172).
RECURSIVE AppendVaryings(_, _, _)
AppendVaryings(vs, names, t) ==
    IF names = <<>> THEN vs
    ELSE AppendVaryings(
             Append(vs, [name |-> Head(names), typ |-> t,
                         constant |-> FALSE, init |-> ""]),
             Tail(names), t)

\* A faulty variant of ParseField: a tag that is not the position tag is
\* reported and the field is then handled as an untagged one.
ParseField_TagFallsThrough(sh, f) ==
    LET r == parseType(f.Type)
        m == IF f.Tag.present THEN kageTagRe(f.Tag.value) ELSE <<>>
        e == IF ~f.Tag.present THEN sh
             ELSE IF m = <<>>
             THEN addError(sh, "invalid struct tag: " \o Text(f.Tag.value))
             ELSE addError(sh, "struct tag value must be position in "
                                 \o NameString(varyingStructName) \o " but "
                                 \o Text(m[1]))
    IN  IF f.Tag.present /\ m # <<>> /\ m[1] = PositionValue
        THEN IF Len(f.Names) = 1 /\ r.ok /\ r.t = typVec4
             THEN [sh EXCEPT !.position =
                       [name |-> f.Names[1], typ |-> r.t,
                        constant |-> FALSE, init |-> ""]]
             ELSE addError(sh, "position is invalid")
        ELSE IF ~r.ok THEN addError(e, r.err)
        ELSE IF ~numeric(r.t)
        THEN addError(e, "members in " \o NameString(varyingStructName)
                           \o " must be numeric but " \o TypString(r.t))
        ELSE [e EXCEPT !.varyings = AppendVaryings(@, f.Names, r.t)]

\* The body of the loop over the fields, for one field f.
ParseField(sh, f) ==
    LET r == parseType(f.Type) IN
    IF f.Tag.present
    THEN LET m == kageTagRe(f.Tag.value) IN
         IF m = <<>>
         THEN addError(sh, "invalid struct tag: " \o Text(f.Tag.value))
         ELSE IF m[1] # PositionValue
         THEN addError(sh, "struct tag value must be position in "
                             \o NameString(varyingStructName) \o " but " \o Text(m[1]))
         ELSE IF Len(f.Names) # 1
         THEN addError(sh, "position members must be one")
         ELSE IF ~r.ok
         THEN addError(sh, r.err)
         ELSE IF r.t # typVec4
         THEN addError(sh, "position must be vec4 but " \o TypString(r.t))
         ELSE [sh EXCEPT !.position =
                   [name |-> f.Names[1], typ |-> r.t,
                    constant |-> FALSE, init |-> ""]]
    ELSE IF ~r.ok
         THEN addError(sh, r.err)
         ELSE IF ~numeric(r.t)
         THEN addError(sh, "members in " \o NameString(varyingStructName)
                             \o " must be numeric but " \o TypString(r.t))
         ELSE [sh EXCEPT !.varyings = AppendVaryings(@, f.Names, r.t)]

\* A faulty variant of ParseFields: the loop ends at the first field that
\* records a message.
RECURSIVE ParseFields_StopAtFirstError(_, _)
ParseFields_StopAtFirstError(sh, fields) ==
    IF fields = <<>> THEN sh
    ELSE IF Len(sh.errs) > 0 THEN sh
    ELSE ParseFields_StopAtFirstError(ParseField(sh, Head(fields)), Tail(fields))

\* for _, f := range s.Fields.List
RECURSIVE ParseFields(_, _)
ParseFields(sh, fields) ==
    IF fields = <<>> THEN sh
    ELSE ParseFields(ParseField(sh, Head(fields)), Tail(fields))

\* ast.ObjKind.String()
KindString(k) ==
    CASE k = "Typ" -> "type"
      [] k = "Con" -> "const"
      [] k = "Var" -> "var"
      [] k = "Fun" -> "func"

parseVaryingStruct(sh, obj) ==
    IF obj.Kind # "Typ"
    THEN addError(sh, NameString(obj.Name) \o " must be a type but "
                        \o KindString(obj.Kind))
    ELSE IF ~obj.Decl.isStruct
    THEN addError(sh, NameString(obj.Name) \o " must be a struct but not")
    ELSE ParseFields(sh, obj.Decl.Fields)

parsePackageLevelVariable(sh, name, obj) ==
    LET r == parseType(obj.Decl.Type) IN
    IF ~r.ok
    THEN addError(sh, r.err)
    ELSE LET val == [name |-> name, typ |-> r.t, constant |-> FALSE, init |-> ""]
         IN  IF IsUpperFirst(name)
             THEN [sh EXCEPT !.uniforms = Append(@, val)]
             ELSE [sh EXCEPT !.globals = Append(@, val)]

\* The loop over vs.Values from index i on.  The result is the Shader and
\* whether the run-time panicked: vs.Names[i] is read for every index of
\* vs.Values, and is out of range when Values is the longer list.
\* A faulty variant of ConstValues: the kind of a literal is not looked at.
RECURSIVE ConstValues_AnyLiteral(_, _, _, _, _)
ConstValues_AnyLiteral(sh, name, vs, t, i) ==
    IF i > Len(vs.Values) THEN [sh |-> sh, panic |-> FALSE]
    ELSE IF i > Len(vs.Names) THEN [sh |-> sh, panic |-> TRUE]
    ELSE IF vs.Names[i] # name THEN ConstValues_AnyLiteral(sh, name, vs, t, i + 1)
    ELSE LET v == vs.Values[i]
             val == [name |-> name, typ |-> t, constant |-> TRUE,
                     init |-> IF v.lit THEN v.Value ELSE ""]
         IN  ConstValues_AnyLiteral([sh EXCEPT !.globals = Append(@, val)],
                                    name, vs, t, i + 1)

RECURSIVE ConstValues(_, _, _, _, _)
ConstValues(sh, name, vs, t, i) ==
    IF i > Len(vs.Values) THEN [sh |-> sh, panic |-> FALSE]
    ELSE IF i > Len(vs.Names) THEN [sh |-> sh, panic |-> TRUE]
    ELSE IF vs.Names[i] # name THEN ConstValues(sh, name, vs, t, i + 1)
    ELSE LET v == vs.Values[i] IN
         IF v.lit /\ v.Kind \notin {"INT", "FLOAT"}
         THEN [sh |-> addError(sh, "literal must be int or float but " \o v.Kind),
               panic |-> FALSE]
         ELSE LET val == [name |-> name, typ |-> t, constant |-> TRUE,
                          init |-> IF v.lit THEN v.Value ELSE ""]
              IN  ConstValues([sh EXCEPT !.globals = Append(@, val)],
                              name, vs, t, i + 1)

parsePackageLevelConstant(sh, name, obj) ==
    LET r == parseType(obj.Decl.Type) IN
    IF ~r.ok
    THEN [sh |-> addError(sh, r.err), panic |-> FALSE]
    ELSE ConstValues(sh, name, obj.Decl, r.t, 1)

(***************************************************************************)
(* NewShader's tail: the ordering of the three collections                 *)
(***************************************************************************)
\* v inserted into the name-sorted sequence s, after the entries that are
\* not greater: sort.Slice on a slice this short is an insertion sort.
RECURSIVE InsertByName(_, _)
InsertByName(s, v) ==
    IF s = <<>> THEN <<v>>
    ELSE IF NameLess(v.name, Head(s).name) THEN <<v>> \o s
    ELSE <<Head(s)>> \o InsertByName(Tail(s), v)

\* A faulty variant of SortByName: the slice is left as parse built it.
SortByName_Unsorted(s) == s

\* sort.Slice(vs, func(a, b int) bool { return vs[a].name < vs[b].name })
RECURSIVE SortByName(_)
SortByName(s) ==
    IF s = <<>> THEN <<>>
    ELSE InsertByName(SortByName(SubSeq(s, 1, Len(s) - 1)), s[Len(s)])

\* What NewShader returns once parse has walked the whole scope.
\* shader is <<>> for a nil *Shader and <<sh>> for a pointer to sh.
NewShaderReturn(sh) ==
    IF Len(sh.errs) > 0
    THEN [kind |-> "returned", shader |-> <<>>, err |-> "ParseError", errs |-> sh.errs]
    ELSE [kind |-> "returned",
          shader |-> <<[sh EXCEPT !.varyings = SortByName(@),
                               !.uniforms = SortByName(@),
                               !.globals = SortByName(@)]>>,
          err |-> "nil", errs |-> <<>>]

\* The generic parser's error, handed on as it is.
SyntaxErrorReturn ==
    [kind |-> "returned", shader |-> <<>>, err |-> "SyntaxError", errs |-> <<>>]

\* A run-time panic: the call does not return.
PanicOutcome ==
    [kind |-> "panicked", shader |-> <<>>, err |-> "nil", errs |-> <<>>]

(***************************************************************************)
(* Dump                                                                    *)
(***************************************************************************)
RECURSIVE VaryingLines(_)
VaryingLines(vs) ==
    IF vs = <<>> THEN <<>>
    ELSE <<"var " \o NameString(Head(vs).name) \o " varying "
             \o TypString(Head(vs).typ)>>
         \o VaryingLines(Tail(vs))

RECURSIVE UniformLines(_)
UniformLines(us) ==
    IF us = <<>> THEN <<>>
    ELSE <<"var " \o NameString(Head(us).name) \o " uniform "
             \o TypString(Head(us).typ)>>
         \o UniformLines(Tail(us))

\* fmt.Sprintf("%s %s %s%s", prefix, g.name, g.typ, init): the last
\* argument is empty, or " = " followed by the initializer.
GlobalLine(g) ==
    (IF g.constant THEN "const" ELSE "var") \o " " \o NameString(g.name) \o " "
    \o TypString(g.typ) \o (IF g.init # "" THEN " = " \o g.init ELSE "")

RECURSIVE GlobalLines(_)
GlobalLines(gs) ==
    IF gs = <<>> THEN <<>>
    ELSE <<GlobalLine(Head(gs))>> \o GlobalLines(Tail(gs))

\* A faulty variant of DumpLines: the globals are written before the uniforms.
DumpLines_GlobalsFirst(sh) ==
    <<"var " \o NameString(sh.position.name) \o " varying "
        \o TypString(sh.position.typ) \o " // position">>
    \o VaryingLines(sh.varyings)
    \o GlobalLines(sh.globals)
    \o UniformLines(sh.uniforms)

DumpLines(sh) ==
    <<"var " \o NameString(sh.position.name) \o " varying "
        \o TypString(sh.position.typ) \o " // position">>
    \o VaryingLines(sh.varyings)
    \o UniformLines(sh.uniforms)
    \o GlobalLines(sh.globals)

\* strings.Join(lines, sep): the lines with sep between two of them.  A
\* text of several lines is the sequence of its lines and line breaks.
RECURSIVE Join(_, _)
Join(lines, sep) ==
    IF lines = <<>> THEN <<>>
    ELSE IF Len(lines) = 1 THEN <<Head(lines)>>
    ELSE <<Head(lines), sep>> \o Join(Tail(lines), sep)

\* strings.Join(lines, "\n") + "\n", the line break being "LF"
Dump(sh) == Join(DumpLines(sh), "LF") \o <<"LF">>

(***************************************************************************)
(* Sources.  A source is what the generic parser makes of it: parses says  *)
(* whether it accepted the text, and Objects is the package scope of the   *)
(* syntax tree, a map from each declared identifier to its object.  An     *)
(* object's Decl holds the fields of its TypeSpec (isStruct, Fields) or of *)
(* its ValueSpec (Names, Type, Values).  No identifier is declared twice   *)
(* (section 4.2: equal names do not occur in well-formed input).           *)
(***************************************************************************)
MaxFields == 2
MaxDecls == 2

NoTag == [present |-> FALSE, value |-> <<>>]
TagPosition == [present |-> TRUE, value |-> TagPrefix \o PositionValue \o TagSuffix]
TagFoo == [present |-> TRUE, value |-> TagPrefix \o <<"f", "o", "o">> \o TagSuffix]
TagJson ==
    [present |-> TRUE, value |-> <<"BQ", "j", "s", "o", "n", ":", "DQ", "x", "DQ", "BQ">>]

Fields ==
    { [Names |-> <<fP>>, Type |-> "vec4", Tag |-> TagPosition],
      [Names |-> <<fQ>>, Type |-> "vec2", Tag |-> TagPosition],
      [Names |-> <<fK, fW>>, Type |-> "vec4", Tag |-> TagPosition],
      [Names |-> <<fN>>, Type |-> "foo", Tag |-> TagPosition],
      [Names |-> <<fX>>, Type |-> "vec2", Tag |-> TagFoo],
      [Names |-> <<fY>>, Type |-> "vec2", Tag |-> TagJson],
      [Names |-> <<fT>>, Type |-> "vec2", Tag |-> NoTag],
      [Names |-> <<fV, fU>>, Type |-> "float", Tag |-> NoTag],
      [Names |-> <<fZ>>, Type |-> "bool", Tag |-> NoTag],
      [Names |-> <<fM>>, Type |-> "foo", Tag |-> NoTag] }

Range(f) == {f[x] : x \in DOMAIN f}

\* The lists of at most n different fields.
RECURSIVE FieldLists(_)
FieldLists(n) ==
    IF n = 0 THEN {<<>>}
    ELSE LET P == FieldLists(n - 1)
         IN  P \cup {Append(p[1], p[2]) :
                        p \in {q \in P \X Fields :
                                 Len(q[1]) = n - 1 /\ q[2] \notin Range(q[1])}}

Object(name, kind, isStruct, fields, names, type, values) ==
    [Name |-> name, Kind |-> kind,
     Decl |-> [isStruct |-> isStruct, Fields |-> fields,
               Names |-> names, Type |-> type, Values |-> values]]

\* type <name> struct { fields }
StructObject(name, fields) == Object(name, "Typ", TRUE, fields, <<>>, "", <<>>)
\* type <name> int
NamedTypeObject(name) == Object(name, "Typ", FALSE, <<>>, <<>>, "", <<>>)
\* func <name>()
FuncObject(name) == Object(name, "Fun", FALSE, <<>>, <<>>, "", <<>>)
\* var <names> <type>
VarObject(name, names, type) == Object(name, "Var", FALSE, <<>>, names, type, <<>>)
\* const <names> <type> = <values>
ConstObject(name, names, type, values) ==
    Object(name, "Con", FALSE, <<>>, names, type, values)

\* Expressions: literals of a token kind, and an expression that is no literal.
Int1 == [lit |-> TRUE, Kind |-> "INT", Value |-> "1"]
Int7 == [lit |-> TRUE, Kind |-> "INT", Value |-> "7"]
Float2 == [lit |-> TRUE, Kind |-> "FLOAT", Value |-> "2.0"]
Str == [lit |-> TRUE, Kind |-> "STRING", Value |-> "s"]
NonLit == [lit |-> FALSE, Kind |-> "", Value |-> ""]

PkgNames == {nA, nB, na, n_x}

\* A declaration binds every one of its names to an object of its spec.
VarDecls ==
    {[n \in {name} |-> VarObject(name, <<name>>, type)] :
        name \in PkgNames, type \in {"vec2", "foo"}}

FuncDecls == {[n \in {name} |-> FuncObject(name)] : name \in {na, nB}}

ConstShapes ==
    { <<"float", <<Int1>> >>, <<"float", <<Str>> >>, <<"float", <<NonLit>> >>,
      <<"foo", <<Int1>> >>, <<"float", <<Int1, Int7>> >>, <<"float", <<Str, Int7>> >> }

ConstDecls ==
    {[n \in {name} |-> ConstObject(name, <<name>>, sh[1], sh[2])] :
        name \in PkgNames, sh \in ConstShapes}

PairShapes == { <<Int1>>, <<Str, Float2>>, <<Int1, Int7, Float2>> }

ConstPairDecls ==
    {[n \in Range(names) |-> ConstObject(n, names, "float", vals)] :
        names \in {<<nA, na>>, <<n_x, nB>>}, vals \in PairShapes}

Decls == VarDecls \cup FuncDecls \cup ConstDecls \cup ConstPairDecls

\* The scopes of at most n declarations, no identifier declared twice.
RECURSIVE Scopes(_, _)
Scopes(ds, n) ==
    IF n = 0 THEN {<<>>}
    ELSE LET P == Scopes(ds, n - 1)
         IN  P \cup {p[1] @@ p[2] :
                        p \in {q \in ds \X P : DOMAIN q[1] \cap DOMAIN q[2] = {}}}

\* The VertexOut declarations other than a struct of listed fields.
VertexOutOthers ==
    { NamedTypeObject(varyingStructName),
      VarObject(varyingStructName, <<varyingStructName>>, "vec2"),
      FuncObject(varyingStructName) }

WithVertexOut(sc, obj) == [n \in {varyingStructName} |-> obj] @@ sc

\* Sources that vary the struct: any list of fields, at most one of a few
\* package-level declarations.
FewDecls ==
    {[n \in {nA} |-> VarObject(nA, <<nA>>, "vec2")],
     [n \in {na} |-> VarObject(na, <<na>>, "foo")],
     [n \in {nB} |-> ConstObject(nB, <<nB>>, "float", <<Float2>>)]}

StructSources ==
    {[parses |-> TRUE, Objects |-> WithVertexOut(sc, StructObject(varyingStructName, l))] :
        sc \in Scopes(FewDecls, 1), l \in FieldLists(MaxFields)}

\* Sources that vary the package-level declarations: no VertexOut, one that
\* is no struct, or the struct of a position and a varying.
DeclSources ==
    {[parses |-> TRUE, Objects |-> sc] : sc \in Scopes(Decls, MaxDecls)}
    \cup {[parses |-> TRUE, Objects |-> WithVertexOut(sc, obj)] :
            sc \in Scopes(Decls, MaxDecls),
            obj \in VertexOutOthers \cup
                {StructObject(varyingStructName,
                    << [Names |-> <<fP>>, Type |-> "vec4", Tag |-> TagPosition],
                       [Names |-> <<fT>>, Type |-> "vec2", Tag |-> NoTag] >>)}}

\* A text the generic parser rejects: there is no syntax tree.
MalformedSource == [parses |-> FALSE, Objects |-> <<>>]

Sources == StructSources \cup DeclSources \cup {MalformedSource}

(***************************************************************************)
(* The vertices backend                                                    *)
(***************************************************************************)
VertexFloatNum == 8
InitialVertices == 1024

\* Requests are for a multiple of VertexQuantum vertices, MaxChunks of them
\* at most; at most MaxLive slices are taken before one is taken as last.
VertexQuantum == 512
MaxChunks == 4
MaxLive == 2

Procs == {1, 2}

\* for v.head+need > l { l *= 2 }
RECURSIVE GrownLen(_, _)
GrownLen(l, want) == IF want > l THEN GrownLen(l * 2, want) ELSE l

\* A faulty variant of NextHead: the head is not moved past the slice.
NextHead_NotAdvanced(head, need, last) == IF last THEN 0 ELSE head

\* The head after the slice is cut at head: back to 0 when it was the last.
NextHead(head, need, last) == IF last THEN 0 ELSE head + need

\* need := n * graphics.VertexFloatNum
Need(n) == n * VertexFloatNum

(***************************************************************************)
(* State                                                                   *)
(***************************************************************************)
VARIABLES
    src,        \* the source every call of NewShader is given
    pc,         \* "idle", "parse" (inside Shader.parse) or "crashed"
    s,          \* the Shader the running call builds
    todo,       \* the identifiers of the scope the range loop has yet to visit
    calls,      \* the outcome of each call of NewShader so far
    built,      \* for each call, the Shader as parse left it (kept as history)
    dumps,      \* the text Dump gave for each returned Shader, <<>> before
    backendLen, \* len(v.backend)
    array,      \* which allocation v.backend is
    head,       \* v.head
    mutex,      \* the process that holds v.m, 0 when it is free
    vpc,        \* each process: "idle", "locked" or "cut"
    req,        \* each process's arguments n and last, while it is in slice
    handed      \* the slices cut from v.backend since the last reset

shaderVars == <<src, pc, s, todo, calls, built, dumps>>
backendVars == <<backendLen, array, head, mutex, vpc, req, handed>>
vars == <<src, pc, s, todo, calls, built, dumps,
          backendLen, array, head, mutex, vpc, req, handed>>

CallIds == {1, 2}

NoRequest == [n |-> 0, last |-> FALSE]

InitShader ==
    /\ pc = "idle"
    /\ s = EmptyShader
    /\ todo = {}
    /\ calls = <<>>
    /\ built = <<>>
    /\ dumps = [i \in CallIds |-> <<>>]

InitBackend ==
    /\ backendLen = VertexFloatNum * InitialVertices
    /\ array = 1
    /\ head = 0
    /\ mutex = 0
    /\ vpc = [p \in Procs |-> "idle"]
    /\ req = [p \in Procs |-> NoRequest]
    /\ handed = <<>>

Init ==
    /\ src \in Sources
    /\ InitShader
    /\ InitBackend

(***************************************************************************)
(* NewShader, one step for each object the range loop of parse visits: the *)
(* order of a range over a Go map is not fixed.                            *)
(***************************************************************************)
\* parser.ParseFile, and on success s := &Shader{} and the start of parse
NewShaderBegin ==
    /\ pc = "idle"
    /\ Len(calls) < Cardinality(CallIds)
    /\ IF ~src.parses
       THEN /\ calls' = Append(calls, SyntaxErrorReturn)
            /\ built' = Append(built, EmptyShader)
            /\ UNCHANGED <<pc, s, todo>>
       ELSE /\ pc' = "parse"
            /\ s' = EmptyShader
            /\ todo' = DOMAIN src.Objects
            /\ UNCHANGED <<calls, built>>
    /\ UNCHANGED <<src, dumps>>
    /\ UNCHANGED backendVars

\* case varyingStructName
VisitVaryingStruct ==
    /\ pc = "parse"
    /\ varyingStructName \in todo
    /\ s' = parseVaryingStruct(s, src.Objects[varyingStructName])
    /\ todo' = todo \ {varyingStructName}
    /\ UNCHANGED <<src, pc, calls, built, dumps>>
    /\ UNCHANGED backendVars

\* default, case ast.Con
VisitConstant(name) ==
    /\ pc = "parse"
    /\ name \in todo
    /\ name # varyingStructName
    /\ src.Objects[name].Kind = "Con"
    /\ LET r == parsePackageLevelConstant(s, name, src.Objects[name])
       IN  IF r.panic
           THEN /\ pc' = "crashed"
                /\ calls' = Append(calls, PanicOutcome)
                /\ built' = Append(built, r.sh)
                /\ s' = EmptyShader
                /\ todo' = {}
           ELSE /\ s' = r.sh
                /\ todo' = todo \ {name}
                /\ UNCHANGED <<pc, calls, built>>
    /\ UNCHANGED <<src, dumps>>
    /\ UNCHANGED backendVars

\* default, case ast.Var
VisitVariable(name) ==
    /\ pc = "parse"
    /\ name \in todo
    /\ name # varyingStructName
    /\ src.Objects[name].Kind = "Var"
    /\ s' = parsePackageLevelVariable(s, name, src.Objects[name])
    /\ todo' = todo \ {name}
    /\ UNCHANGED <<src, pc, calls, built, dumps>>
    /\ UNCHANGED backendVars

\* default, any other kind: nothing is done for the object
VisitOther(name) ==
    /\ pc = "parse"
    /\ name \in todo
    /\ name # varyingStructName
    /\ src.Objects[name].Kind \notin {"Con", "Var"}
    /\ todo' = todo \ {name}
    /\ UNCHANGED <<src, pc, s, calls, built, dumps>>
    /\ UNCHANGED backendVars

\* the loop is over: the error check, the three sorts and the return
NewShaderEnd ==
    /\ pc = "parse"
    /\ todo = {}
    /\ calls' = Append(calls, NewShaderReturn(s))
    /\ built' = Append(built, s)
    /\ pc' = "idle"
    /\ s' = EmptyShader
    /\ UNCHANGED <<src, todo, dumps>>
    /\ UNCHANGED backendVars

\* Shader.Dump on the Shader call i returned
CallDump(i) ==
    /\ pc = "idle"
    /\ i \in 1..Len(calls)
    /\ calls[i].shader # <<>>
    /\ dumps[i] = <<>>
    /\ dumps' = [dumps EXCEPT ![i] = Dump(calls[i].shader[1])]
    /\ UNCHANGED <<src, pc, s, todo, calls, built>>
    /\ UNCHANGED backendVars

Next ==
    \/ NewShaderBegin
    \/ VisitVaryingStruct
    \/ \E name \in PkgNames : VisitConstant(name)
    \/ \E name \in PkgNames : VisitVariable(name)
    \/ \E name \in PkgNames : VisitOther(name)
    \/ NewShaderEnd
    \/ \E i \in CallIds : CallDump(i)

Spec == Init /\ [][Next]_vars

(***************************************************************************)
(* verticesBackend.slice, called by the processes of Procs                 *)
(***************************************************************************)
\* handed is the slices cut from the current array since the last call with
\* last set, that call's slice included; Live is those a further slice is
\* cut after with no reset between.
Live == IF handed # <<>> /\ handed[Len(handed)].last THEN <<>> ELSE handed

\* v.m.Lock()
SliceLock(p, n, last) ==
    /\ vpc[p] = "idle"
    /\ mutex = 0
    /\ last \/ Len(Live) < MaxLive
    /\ mutex' = p
    /\ vpc' = [vpc EXCEPT ![p] = "locked"]
    /\ req' = [req EXCEPT ![p] = [n |-> n, last |-> last]]
    /\ UNCHANGED <<backendLen, array, head, handed>>
    /\ UNCHANGED shaderVars

\* from need := ... to the update of v.head
SliceCut(p) ==
    /\ vpc[p] = "locked"
    /\ LET need == Need(req[p].n)
           grow == head + need > backendLen
           h0 == IF grow THEN 0 ELSE head
           a == IF grow THEN array + 1 ELSE array
           sl == [array |-> a, lo |-> h0, hi |-> h0 + need, n |-> req[p].n,
                  last |-> req[p].last]
       IN  /\ backendLen' = IF grow THEN GrownLen(backendLen, head + need)
                                    ELSE backendLen
           /\ array' = a
           /\ head' = NextHead(h0, need, req[p].last)
           /\ handed' = Append(IF grow THEN <<>> ELSE Live, sl)
    /\ vpc' = [vpc EXCEPT ![p] = "cut"]
    /\ UNCHANGED <<mutex, req>>
    /\ UNCHANGED shaderVars

\* v.m.Unlock() and the return
SliceUnlock(p) ==
    /\ vpc[p] = "cut"
    /\ mutex' = 0
    /\ vpc' = [vpc EXCEPT ![p] = "idle"]
    /\ req' = [req EXCEPT ![p] = NoRequest]
    /\ UNCHANGED <<backendLen, array, head, handed>>
    /\ UNCHANGED shaderVars

InitVB ==
    /\ src = MalformedSource
    /\ InitShader
    /\ InitBackend

NextVB ==
    \/ \E p \in Procs, k \in 0..MaxChunks, last \in BOOLEAN :
           SliceLock(p, k * VertexQuantum, last)
    \/ \E p \in Procs : SliceCut(p)
    \/ \E p \in Procs : SliceUnlock(p)

SpecVB == InitVB /\ [][NextVB]_vars

(***************************************************************************)
(* What the properties say of a source, stated on the declarations themselves  *)
(***************************************************************************)
CallsDone == 1..Len(calls)
HasShader(i) == calls[i].shader # <<>>
ShaderOf(i) == calls[i].shader[1]
Scope == IF src.parses THEN src.Objects ELSE <<>>
Entries(q) == {q[i] : i \in 1..Len(q)}

Resolves(type) == parseType(type).ok
ResolvesNumeric(type) == parseType(type).ok /\ numeric(parseType(type).t)

\* The tag `kage:"position"`, character by character.
PositionTagText ==
    <<"BQ", "k", "a", "g", "e", ":", "DQ",
      "p", "o", "s", "i", "t", "i", "o", "n", "DQ", "BQ">>

FieldIsPosition(f) ==
    /\ f.Tag.present
    /\ f.Tag.value = PositionTagText
    /\ Len(f.Names) = 1
    /\ f.Type = "vec4"

FieldIsVarying(f) == ~f.Tag.present /\ ResolvesNumeric(f.Type)

FieldInvalid(f) == ~FieldIsPosition(f) /\ ~FieldIsVarying(f)

\* The places of name among the names of a ValueSpec that have a value.
ValuePlaces(name, d) ==
    {i \in 1..Len(d.Values) : i <= Len(d.Names) /\ d.Names[i] = name}

ConstInvalid(name, d) ==
    \/ ~Resolves(d.Type)
    \/ \E i \in ValuePlaces(name, d) :
          d.Values[i].lit /\ d.Values[i].Kind \notin {"INT", "FLOAT"}

\* The number of invalid items the object declared as name holds.
InvalidIn(name) ==
    LET obj == Scope[name] IN
    IF name = varyingStructName
    THEN IF obj.Kind # "Typ" \/ ~obj.Decl.isStruct THEN 1
         ELSE Cardinality({i \in 1..Len(obj.Decl.Fields) :
                             FieldInvalid(obj.Decl.Fields[i])})
    ELSE IF obj.Kind = "Var" THEN (IF Resolves(obj.Decl.Type) THEN 0 ELSE 1)
    ELSE IF obj.Kind = "Con" THEN (IF ConstInvalid(name, obj.Decl) THEN 1 ELSE 0)
    ELSE 0

RECURSIVE InvalidItems(_)
InvalidItems(names) ==
    IF names = {} THEN 0
    ELSE LET n == CHOOSE x \in names : TRUE
         IN  InvalidIn(n) + InvalidItems(names \ {n})

VertexOutFields ==
    IF /\ varyingStructName \in DOMAIN Scope
       /\ Scope[varyingStructName].Kind = "Typ"
       /\ Scope[varyingStructName].Decl.isStruct
    THEN Scope[varyingStructName].Decl.Fields
    ELSE <<>>

(***************************************************************************)
(* C1                                                                      *)
(***************************************************************************)
\* C1: every call of NewShader ends in exactly one of three outcomes: the
\* generic parser's error with a nil Shader and nothing classified, a
\* ParseError with at least one message and a nil Shader, or a Shader with a
\* nil error, the last only when the walk recorded no diagnostic.
C1_ThreeOutcomes ==
    \A i \in CallsDone :
        /\ calls[i].kind = "returned"
        /\ \/ /\ calls[i].err = "SyntaxError"
              /\ ~HasShader(i)
              /\ ~src.parses
              /\ built[i] = EmptyShader
           \/ /\ calls[i].err = "ParseError"
              /\ calls[i].errs # <<>>
              /\ ~HasShader(i)
           \/ /\ calls[i].err = "nil"
              /\ HasShader(i)
              /\ built[i].errs = <<>>

(***************************************************************************)
(* C2                                                                      *)
(***************************************************************************)
\* C2: classification does not stop at the first diagnostic.  While parse
\* walks the scope the Shader holds one message for every invalid item of
\* the objects visited so far, and a returned ParseError holds one message
\* for every invalid item of the source.
C2_OneMessagePerInvalidItem ==
    /\ pc = "parse" => Len(s.errs) = InvalidItems(DOMAIN Scope \ todo)
    /\ \A i \in CallsDone :
          calls[i].err = "ParseError" =>
              Len(calls[i].errs) = InvalidItems(DOMAIN Scope)

\* A ParseError of three messages for a struct of two invalid fields (a
\* position of the wrong type, a malformed tag) and one variable whose type
\* does not resolve.
C2_Witness ==
    \E i \in CallsDone :
        /\ calls[i].err = "ParseError"
        /\ Len(calls[i].errs) = 3
        /\ Len(VertexOutFields) = 2
        /\ \E j, k \in 1..2 :
              /\ VertexOutFields[j].Tag.value = PositionTagText
              /\ VertexOutFields[j].Type = "vec2"
              /\ VertexOutFields[k].Tag.present
              /\ kageTagRe(VertexOutFields[k].Tag.value) = <<>>
        /\ \E n \in DOMAIN Scope \ {varyingStructName} :
              Scope[n].Kind = "Var" /\ ~Resolves(Scope[n].Decl.Type)

(***************************************************************************)
(* C3                                                                      *)
(***************************************************************************)
\* a before b in byte-wise order: they agree up to a place where a ends and
\* b goes on, or where a holds the smaller byte.
ByteLess(a, b) ==
    \E k \in 1..(Len(b)) :
        /\ k <= Len(a) + 1
        /\ \A j \in 1..(k - 1) : a[j] = b[j]
        /\ k = Len(a) + 1 \/ a[k] < b[k]

Ascending(q) == \A j, k \in 1..Len(q) : j < k => ~ByteLess(q[k].name, q[j].name)

\* C3: the varyings, uniforms and globals of a returned Shader are each in
\* ascending byte-wise order of name, and two calls on the same source,
\* whatever the order in which each one visited the scope, return the same
\* three sequences and the same Dump text.
C3_SortedWhateverTheOrder ==
    /\ \A i \in CallsDone :
          HasShader(i) =>
              /\ Ascending(ShaderOf(i).varyings)
              /\ Ascending(ShaderOf(i).uniforms)
              /\ Ascending(ShaderOf(i).globals)
    /\ \A i, j \in CallsDone :
          HasShader(i) /\ HasShader(j) =>
              /\ ShaderOf(i).varyings = ShaderOf(j).varyings
              /\ ShaderOf(i).uniforms = ShaderOf(j).uniforms
              /\ ShaderOf(i).globals = ShaderOf(j).globals
              /\ dumps[i] # <<>> /\ dumps[j] # <<>> => dumps[i] = dumps[j]

\* Two calls that visited two globals in different orders, both dumped.
C3_Witness ==
    /\ Len(calls) = 2
    /\ HasShader(1) /\ HasShader(2)
    /\ Len(built[1].globals) = 2
    /\ built[1].globals # built[2].globals
    /\ dumps[1] # <<>> /\ dumps[2] # <<>>

(***************************************************************************)
(* C4                                                                      *)
(***************************************************************************)
\* C4: two calls on the same source that both return a ParseError return
\* the same messages in the same order, whatever the order in which each
\* one visited the scope.
C4_SameDiagnostics ==
    \A i, j \in CallsDone :
        calls[i].err = "ParseError" /\ calls[j].err = "ParseError" =>
            calls[i].errs = calls[j].errs

(***************************************************************************)
(* C5                                                                      *)
(***************************************************************************)
\* C5: every returned Shader has a position: its type is vec4 and its name
\* is the one name of a VertexOut field tagged `kage:"position"`; it is
\* never left unset.
C5_PositionSet ==
    \A i \in CallsDone :
        HasShader(i) =>
            /\ ShaderOf(i).position.name # <<>>
            /\ ShaderOf(i).position.typ = "typVec4"
            /\ \E k \in 1..Len(VertexOutFields) :
                  /\ VertexOutFields[k].Tag.present
                  /\ VertexOutFields[k].Tag.value = PositionTagText
                  /\ VertexOutFields[k].Names = <<ShaderOf(i).position.name>>

(***************************************************************************)
(* C6                                                                      *)
(***************************************************************************)
FirstByteIn(name, lo, hi) == name # <<>> /\ lo <= name[1] /\ name[1] <= hi
UpperFirst(name) == FirstByteIn(name, 65, 90)
LowerFirst(name) == FirstByteIn(name, 97, 122)

PkgVars == {n \in DOMAIN Scope \ {varyingStructName} : Scope[n].Kind = "Var"}
PkgConsts == {n \in DOMAIN Scope \ {varyingStructName} : Scope[n].Kind = "Con"}

\* C6 as claimed: in every returned Shader each uniform is a package-level
\* variable, not a constant, with an uppercase first letter; each global is
\* a constant or begins with a lowercase letter; every package-level
\* constant is a constant global and no uniform; nothing is in both.
C6_AsClaimed ==
    \A i \in CallsDone :
        HasShader(i) =>
            LET us == Entries(ShaderOf(i).uniforms)
                gs == Entries(ShaderOf(i).globals)
            IN  /\ \A u \in us :
                      ~u.constant /\ u.name \in PkgVars /\ UpperFirst(u.name)
                /\ \A g \in gs : g.constant \/ LowerFirst(g.name)
                /\ \A n \in PkgConsts :
                      /\ \E g \in gs : g.name = n /\ g.constant
                      /\ \A u \in us : u.name # n
                /\ \A u \in us, g \in gs : u.name # g.name

\* C6, amended: a global that is no constant is a package-level variable
\* whose first byte is no uppercase ASCII letter, and the constants that are
\* constant globals are those the declaration gives a value.
C6_Classification ==
    \A i \in CallsDone :
        HasShader(i) =>
            LET us == Entries(ShaderOf(i).uniforms)
                gs == Entries(ShaderOf(i).globals)
            IN  /\ \A u \in us :
                      ~u.constant /\ u.name \in PkgVars /\ UpperFirst(u.name)
                /\ \A g \in gs :
                      \/ g.constant /\ g.name \in PkgConsts
                      \/ ~g.constant /\ g.name \in PkgVars /\ ~UpperFirst(g.name)
                /\ \A n \in PkgConsts :
                      ValuePlaces(n, Scope[n].Decl) # {} =>
                          /\ \E g \in gs : g.name = n /\ g.constant
                          /\ \A u \in us : u.name # n
                /\ \A n \in PkgVars :
                      IF UpperFirst(n) THEN \E u \in us : u.name = n
                                       ELSE \E g \in gs : g.name = n /\ ~g.constant
                /\ \A u \in us, g \in gs : u.name # g.name

\* A Shader with a uniform and a constant global of an uppercase name.
C6_Witness ==
    \E i \in CallsDone :
        /\ HasShader(i)
        /\ ShaderOf(i).uniforms # <<>>
        /\ \E g \in Entries(ShaderOf(i).globals) : g.constant /\ UpperFirst(g.name)

(***************************************************************************)
(* C7                                                                      *)
(***************************************************************************)
\* One variable for each name of each untagged field of a numeric type, in
\* the order of the fields and of their names.
RECURSIVE UntaggedNumeric(_)
UntaggedNumeric(fields) ==
    IF fields = <<>> THEN <<>>
    ELSE LET f == Head(fields)
         IN  (IF FieldIsVarying(f)
              THEN [k \in 1..Len(f.Names) |->
                       [name |-> f.Names[k], typ |-> parseType(f.Type).t,
                        constant |-> FALSE, init |-> ""]]
              ELSE <<>>)
             \o UntaggedNumeric(Tail(fields))

Occurrences(q, x) == Cardinality({k \in 1..Len(q) : q[k] = x})
SameEntries(p, q) ==
    /\ Len(p) = Len(q)
    /\ \A x \in Entries(p) \cup Entries(q) : Occurrences(p, x) = Occurrences(q, x)

\* The fields that carry a tag other than `kage:"position"`.
OtherTagged ==
    {k \in 1..Len(VertexOutFields) :
        /\ VertexOutFields[k].Tag.present
        /\ VertexOutFields[k].Tag.value # PositionTagText}

\* The diagnostic of a tag that is not the position tag.
TagDiagnostic(tag) ==
    IF kageTagRe(tag) = <<>>
    THEN "invalid struct tag: " \o Text(tag)
    ELSE "struct tag value must be position in VertexOut but "
         \o Text(kageTagRe(tag)[1])

\* C7: no tagged field becomes a varying.  Once parse has visited VertexOut
\* the varyings are one entry for each name of each untagged field of a
\* numeric type, and nothing else, and every field with a tag other than
\* the position tag has its diagnostic; a returned Shader holds the same
\* entries.
C7_OnlyUntaggedFieldsVary ==
    /\ pc = "parse" /\ varyingStructName \in todo => s.varyings = <<>>
    /\ pc = "parse" /\ varyingStructName \in DOMAIN Scope \ todo =>
          /\ s.varyings = UntaggedNumeric(VertexOutFields)
          /\ \A k \in OtherTagged :
                TagDiagnostic(VertexOutFields[k].Tag.value) \in Entries(s.errs)
    /\ \A i \in CallsDone :
          HasShader(i) =>
              SameEntries(ShaderOf(i).varyings, UntaggedNumeric(VertexOutFields))

\* VertexOut visited: a field tagged `kage:"foo"` dropped with its
\* diagnostic, an untagged vec2 field kept.
C7_Witness ==
    /\ pc = "parse"
    /\ varyingStructName \in DOMAIN Scope \ todo
    /\ \E k \in OtherTagged : kageTagRe(VertexOutFields[k].Tag.value) # <<>>
    /\ \E k \in 1..Len(VertexOutFields) :
          ~VertexOutFields[k].Tag.present /\ VertexOutFields[k].Type = "vec2"
    /\ Len(s.varyings) = 1
    /\ Len(s.errs) = 1

(***************************************************************************)
(* C8                                                                      *)
(***************************************************************************)
\* Line k of the text for sh when the lines are, in this order, one for the
\* position, one for each varying, each uniform and each global.  posTail
\* is what follows the type on the position line; bareConst says whether a
\* constant with an empty initializer is written without " = ".
LineAt(sh, k, posTail, bareConst) ==
    LET nv == Len(sh.varyings)
        nu == Len(sh.uniforms)
    IN  IF k = 1
        THEN "var " \o NameString(sh.position.name) \o " varying "
             \o TypString(sh.position.typ) \o posTail
        ELSE IF k <= 1 + nv
        THEN "var " \o NameString(sh.varyings[k - 1].name) \o " varying "
             \o TypString(sh.varyings[k - 1].typ)
        ELSE IF k <= 1 + nv + nu
        THEN "var " \o NameString(sh.uniforms[k - 1 - nv].name) \o " uniform "
             \o TypString(sh.uniforms[k - 1 - nv].typ)
        ELSE LET g == sh.globals[k - 1 - nv - nu]
             IN  IF ~g.constant
                 THEN "var " \o NameString(g.name) \o " " \o TypString(g.typ)
                 ELSE IF bareConst /\ g.init = ""
                 THEN "const " \o NameString(g.name) \o " " \o TypString(g.typ)
                 ELSE "const " \o NameString(g.name) \o " " \o TypString(g.typ)
                      \o " = " \o g.init

\* text is these lines, each followed by a line break, and nothing else.
RendersAs(text, sh, posTail, bareConst) ==
    LET n == 1 + Len(sh.varyings) + Len(sh.uniforms) + Len(sh.globals)
    IN  /\ Len(text) = 2 * n
        /\ \A k \in 1..n :
              /\ text[2 * k - 1] = LineAt(sh, k, posTail, bareConst)
              /\ text[2 * k] = "LF"

\* C8 as claimed: Dump gives 1 + |varyings| + |uniforms| + |globals| lines,
\* each ended by a line break, in the order position, varyings, uniforms,
\* globals; the position line and the varying lines read
\* "var <name> varying <type>", the uniform lines "var <name> uniform <type>",
\* the globals "var <name> <type>" or "const <name> <type> = <initializer>".
C8_AsClaimed ==
    \A i \in CallsDone :
        dumps[i] # <<>> => RendersAs(dumps[i], ShaderOf(i), "", FALSE)

\* C8, amended: the position line ends in " // position", and a constant
\* whose initializer is empty is written "const <name> <type>".
C8_DumpLines ==
    \A i \in CallsDone :
        dumps[i] # <<>> => RendersAs(dumps[i], ShaderOf(i), " // position", TRUE)

\* A text of a varying, a uniform and a constant with an empty initializer.
C8_Witness ==
    \E i \in CallsDone :
        /\ dumps[i] # <<>>
        /\ ShaderOf(i).varyings # <<>>
        /\ ShaderOf(i).uniforms # <<>>
        /\ \E g \in Entries(ShaderOf(i).globals) : g.constant /\ g.init = ""

(***************************************************************************)
(* C9                                                                      *)
(***************************************************************************)
GlobalsNamed(sh, name) == {k \in 1..Len(sh.globals) : sh.globals[k].name = name}

\* What the visit of the constant name has left in sh, for the value v the
\* declaration gives it.
ConstantRecorded(sh, name, type, v) ==
    IF v.lit /\ v.Kind \in {"INT", "FLOAT"}
    THEN /\ Cardinality(GlobalsNamed(sh, name)) = 1
         /\ \A k \in GlobalsNamed(sh, name) :
               sh.globals[k] = [name |-> name, typ |-> parseType(type).t,
                                constant |-> TRUE, init |-> v.Value]
    ELSE IF v.lit
    THEN /\ GlobalsNamed(sh, name) = {}
         /\ ("literal must be int or float but " \o v.Kind) \in Entries(sh.errs)
    ELSE /\ Cardinality(GlobalsNamed(sh, name)) = 1
         /\ \A k \in GlobalsNamed(sh, name) :
               sh.globals[k] = [name |-> name, typ |-> parseType(type).t,
                                constant |-> TRUE, init |-> ""]

\* C9: once parse has visited a constant whose type resolves, an int or
\* float literal has left exactly one constant global holding the literal's
\* text, a literal of another kind a diagnostic and no global, and any other
\* expression one constant global with an empty initializer; the messages
\* are as many as the invalid items visited, so the last case records none.
\* Every constant of a returned Shader holds the text of the int or float
\* literal it was declared with, or nothing for an expression that is no
\* literal.
C9_ConstantInitializers ==
    /\ pc = "parse" =>
          /\ \A n \in PkgConsts \ todo :
                Resolves(Scope[n].Decl.Type) =>
                    \A k \in ValuePlaces(n, Scope[n].Decl) :
                        ConstantRecorded(s, n, Scope[n].Decl.Type,
                                         Scope[n].Decl.Values[k])
          /\ Len(s.errs) = InvalidItems(DOMAIN Scope \ todo)
    /\ \A i \in CallsDone :
          HasShader(i) =>
              \A g \in Entries(ShaderOf(i).globals) :
                  g.constant =>
                      \E k \in ValuePlaces(g.name, Scope[g.name].Decl) :
                          LET v == Scope[g.name].Decl.Values[k]
                          IN  \/ v.lit /\ v.Kind \in {"INT", "FLOAT"} /\ g.init = v.Value
                              \/ ~v.lit /\ g.init = ""

\* Visited: a constant of an int literal, and a constant of a string
\* literal or of an expression that is no literal.
C9_Witness ==
    /\ pc = "parse"
    /\ \E n, m \in PkgConsts \ todo :
          /\ Resolves(Scope[n].Decl.Type) /\ Resolves(Scope[m].Decl.Type)
          /\ \E k \in ValuePlaces(n, Scope[n].Decl) :
                Scope[n].Decl.Values[k].Kind = "INT"
          /\ \E k \in ValuePlaces(m, Scope[m].Decl) :
                Scope[m].Decl.Values[k].Kind # "INT"

(***************************************************************************)
(* C10                                                                     *)
(***************************************************************************)
Disjoint(a, b) == a.hi <= b.lo \/ b.hi <= a.lo

BackendInvariant ==
    /\ 0 <= head /\ head <= backendLen
    /\ \A sl \in Entries(handed) :
          /\ sl.array = array
          /\ sl.hi - sl.lo = sl.n * VertexFloatNum
          /\ 0 <= sl.lo /\ sl.hi <= backendLen
    /\ \A p \in Procs : vpc[p] = "cut" /\ req[p].last => head = 0
    /\ \A j, k \in 1..Len(handed) : j # k => Disjoint(handed[j], handed[k])

GrowsByDoubling ==
    \/ backendLen' = backendLen
    \/ \E k \in 1..16 : backendLen' = backendLen * (2 ^ k)

\* C10: under any interleaving of the calls of slice, head stays between 0
\* and the length of the backing array, every slice handed out is of length
\* n * VertexFloatNum and lies inside the array, head is 0 when a call with
\* last set has cut its slice, two slices cut from the same array with no
\* reset or reallocation between them do not overlap, and the length of the
\* array never shrinks and grows only by doubling.
C10_Backend == []BackendInvariant /\ [][GrowsByDoubling]_vars

\* Two slices cut one after the other from an array that has been grown.
C10_Witness ==
    /\ array > 1
    /\ Len(Live) = 2
    /\ handed[1].hi > handed[1].lo
    /\ handed[2].hi > handed[2].lo

====
